---- MODULE Spec2Model ----
(***************************************************************************)
(* Verification model of active_learning_ratio_estimation:                 *)
(*   dataset.py         ParamIterator / ParamGrid / RatioDataset family     *)
(*   active_learner.py  ActiveLearner (construction, step, selection)       *)
(*   ratio_model.py     param_scan and the mesh-grid reshape                *)
(*                                                                         *)
(* Conventions.                                                            *)
(*  - A parameter vector is a tuple of integers.  Grid bounds are given in *)
(*    integer units chosen so that np.linspace lands on integers; the      *)
(*    float32 cast of ParamIterator is then exact, as it is for the        *)
(*    dyadic values 0, 0.25, 0.5, ... of the documented examples.          *)
(*  - numpy arrays are sequences, so indices are 1-based here: the model's *)
(*    index i is the source's index i-1.                                   *)
(*  - An optional array (y=None, nllr=None) is a record [given, arr].      *)
(*  - A simulator draw is named by its draw number: sample(n) returns the  *)
(*    next n draw numbers (continuous draws are pairwise distinct).        *)
(***************************************************************************)
EXTENDS Integers, Sequences, FiniteSets, Bags, TLC

VARIABLES
    \* ---- ActiveLearner (active_learner.py) ----
    param_grid,          \* total_param_grid: [bounds, num]
    theta_0,             \* self.theta_0, the reference parameter
    theta_1_iterator,    \* the initial theta_1_iterator passed to __init__
    n_samples_per_theta, \* self.n_samples_per_theta
    acquisition_function,\* "random" or the name of a registry function
    has_test_dataset,    \* self.test_dataset is not None
    test_dataset,        \* the test_dataset passed to __init__: [given, log_prob_0, log_prob_1]
    init_result,         \* how ActiveLearner(...) ended: "none", "ok", "RuntimeError"
    keras_history,       \* ratio_model.keras_model_.history.history: one row per epoch
    fit,                 \* the fit(n_iter) call in progress or last made on the learner
    dataset,             \* self.dataset
    trialed_mask,        \* self._trialed_mask
    train_history,       \* self._train_history
    test_history,        \* self._test_history
    acquisition_history, \* self.acquisition_history
    gp,                  \* self.gp: [id, fits, fitted_on, targets]; id 0 is None
    draws,               \* number of simulator draws made so far
    n_steps,             \* number of step() calls made so far
    n_ok,                \* number of step() calls that returned normally
    step_result,         \* how the last step() call ended
    next_theta_index,    \* the index chosen by the last step() (0: none chosen)
    choice_probs,        \* choice_probs of the last random-mode choice
    prev_mask,           \* _trialed_mask when the last step() was entered
    prev_len,            \* len(self.dataset) when the last step() was entered
    prev_logs,           \* the three histories and self.gp when the last step() was entered
    \* ---- a RatioDataset used on its own (dataset.py) ----
    ds,                  \* the dataset object
    ds_result,           \* "none", "ok" or "ValueError": how construction ended
    ctor_args,           \* the arrays handed to the last RatioDataset(...)
    last_op,             \* the last operation applied to ds
    last_perm,           \* the permutation drawn by the last shuffle()
    ds_before,           \* ds as it was when the last operation started
    \* ---- param_scan (ratio_model.py) ----
    scan_in,             \* param_scan's arguments: [grid, X_true, logr, theta_batch_size]
    scan_out             \* param_scan's result: [done, profile, mle]

learnerVars == <<param_grid, theta_0, theta_1_iterator, n_samples_per_theta,
                 acquisition_function, has_test_dataset, dataset, trialed_mask,
                 train_history, test_history, acquisition_history, gp, draws,
                 n_steps, n_ok, step_result, next_theta_index, choice_probs,
                 prev_mask, prev_len, prev_logs, test_dataset, init_result,
                 keras_history, fit>>
dsVars == <<ds, ds_result, ctor_args, last_op, last_perm, ds_before>>
scanVars == <<scan_in, scan_out>>
vars == <<learnerVars, dsVars, scanVars>>

----------------------------------------------------------------------------
(* Bounds of the model *)

\* step() is called at most MaxSteps times on one learner
MaxSteps == 3
\* arrays handed directly to RatioDataset(...) have at most MaxLen entries
MaxLen == 2
\* a RatioDataset used on its own is grown up to MaxDsLen examples
MaxDsLen == 4
\* param_scan is given at most MaxX observed examples
MaxX == 2
\* param_scan splits the grid into at most MaxBatches batches
MaxBatches == 2
\* a refit of the ratio model runs at most MaxEpochs epochs
MaxEpochs == 3
\* the validation loss of an epoch is one of the levels 1..MaxValLoss
MaxValLoss == 4

----------------------------------------------------------------------------
(* Sequence helpers *)

Range(s) == {s[i] : i \in DOMAIN s}

RECURSIVE SumSeq(_)
SumSeq(s) == IF s = <<>> THEN 0 ELSE Head(s) + SumSeq(Tail(s))

RECURSIVE Flatten(_)
\* np.concatenate of a list of arrays along axis 0
Flatten(ss) == IF ss = <<>> THEN <<>> ELSE Head(ss) \o Flatten(Tail(ss))

\* stack_repeat(v, n): n rows, each equal to v
stack_repeat(v, n) == [i \in 1..n |-> v]

\* concat_repeat(arr, n, axis=0): arr followed by itself, n times in all
concat_repeat(arr, n) == Flatten([k \in 1..n |-> arr])

\* ensure_2d(x) of a 1-D array: every example becomes a row of one feature
\* (a 2-D array is returned as it is)
ensure_2d(x) == [i \in 1..Len(x) |-> <<x[i]>>]

\* arr[p] for an index array p (numpy fancy indexing, 1-based here).  An index
\* past the end of arr is an IndexError in numpy; the length check of
\* RatioDataset.__init__ runs before any indexing and rules it out.
Take(arr, p) ==
    [i \in 1..Len(p) |-> IF p[i] \in DOMAIN arr THEN arr[p[i]] ELSE <<>>]

\* the bag of the entries of a sequence
BagOf(s) == [v \in Range(s) |-> Cardinality({i \in DOMAIN s : s[i] = v})]

----------------------------------------------------------------------------
(* np.random.permutation(n) *)

IdentityPerm(n) == [i \in 1..n |-> i]
ReversePerm(n) == [i \in 1..n |-> n + 1 - i]
AllPerms(n) == {p \in [1..n -> 1..n] : \A i, j \in 1..n : p[i] = p[j] => i = j}

\* The permutations np.random.permutation(n) is taken to return: every one of
\* them for short arrays, the identity and the reversal for longer ones.
RandomPermutations(n) ==
    IF n <= 3 THEN AllPerms(n) ELSE {IdentityPerm(n), ReversePerm(n)}

----------------------------------------------------------------------------
(* Optional arrays and the RatioDataset record *)

NoneArr == [given |-> FALSE, arr |-> <<>>]
Some(a) == [given |-> TRUE, arr |-> a]

EmptyDataset == [x |-> <<>>, theta_0s |-> <<>>, theta_1s |-> <<>>,
                 y |-> NoneArr, nllr |-> NoneArr]

----------------------------------------------------------------------------
(* RatioDataset (dataset.py 70-115) *)

\* dataset.py 86-90: the lengths of x, theta_0s, theta_1s, and of y and nllr
\* when they are not None
ArrayLengths(x, theta_0s, theta_1s, y, nllr) ==
    {Len(x), Len(theta_0s), Len(theta_1s)}
        \cup (IF y.given THEN {Len(y.arr)} ELSE {})
        \cup (IF nllr.given THEN {Len(nllr.arr)} ELSE {})

\* a length check that lets two different lengths pass
DifferentLengths_MoreThanTwo(x, theta_0s, theta_1s, y, nllr) ==
    Cardinality(ArrayLengths(x, theta_0s, theta_1s, y, nllr)) > 2

\* a length check that forgets the optional arrays
DifferentLengths_OnlyRequired(x, theta_0s, theta_1s, y, nllr) ==
    Cardinality({Len(x), Len(theta_0s), Len(theta_1s)}) # 1

\* dataset.py 90: len(set(map(len, arrs))) != 1
DifferentLengths(x, theta_0s, theta_1s, y, nllr) ==
    Cardinality(ArrayLengths(x, theta_0s, theta_1s, y, nllr)) # 1

\* a shuffle that permutes the features and parameters but leaves y in place
shuffle_LabelsStay(d, p) ==
    [x |-> Take(d.x, p),
     theta_0s |-> Take(d.theta_0s, p),
     theta_1s |-> Take(d.theta_1s, p),
     y |-> d.y,
     nllr |-> IF d.nllr.given THEN Some(Take(d.nllr.arr, p)) ELSE d.nllr]

\* RatioDataset.shuffle with p = np.random.permutation(len(self.x))
shuffle(d, p) ==
    [x |-> Take(d.x, p),
     theta_0s |-> Take(d.theta_0s, p),
     theta_1s |-> Take(d.theta_1s, p),
     y |-> IF d.y.given THEN Some(Take(d.y.arr, p)) ELSE d.y,
     nllr |-> IF d.nllr.given THEN Some(Take(d.nllr.arr, p)) ELSE d.nllr]

\* RatioDataset.__init__: [ok, ds]; ok = FALSE is the ValueError of line 91.
\* x is the 2-D array ensure_2d leaves in self.x (line 79).
RatioDataset_init(x, theta_0s, theta_1s, y, nllr, do_shuffle, p) ==
    LET d == [x |-> x, theta_0s |-> theta_0s,
              theta_1s |-> theta_1s, y |-> y, nllr |-> nllr]
    IN  IF DifferentLengths(d.x, theta_0s, theta_1s, y, nllr)
        THEN [ok |-> FALSE, ds |-> EmptyDataset]
        ELSE [ok |-> TRUE, ds |-> IF do_shuffle THEN shuffle(d, p) ELSE d]

\* RatioDataset.__len__
DatasetLen(d) == Len(d.x)

\* The growth operator used by step() (self.dataset += new_ds): every array of
\* the result is the concatenation of the operands' arrays.
RatioDataset_add(a, b) ==
    [x |-> a.x \o b.x,
     theta_0s |-> a.theta_0s \o b.theta_0s,
     theta_1s |-> a.theta_1s \o b.theta_1s,
     y |-> IF a.y.given /\ b.y.given THEN Some(a.y.arr \o b.y.arr) ELSE NoneArr,
     nllr |-> IF a.nllr.given /\ b.nllr.given
              THEN Some(a.nllr.arr \o b.nllr.arr) ELSE NoneArr]

----------------------------------------------------------------------------
(* SinglyParameterizedRatioDataset (dataset.py 147-204) *)

\* The simulator collaborator's log_prob: the log-density of example x under
\* the simulator at parameter theta (always below zero here).
log_prob(theta, x) == 0 - (1 + ((x[1] + SumSeq(theta)) % 5))

\* SingleParamIterator(theta, n_samples=1)
SingleParamIterator(theta) == <<theta>>

\* SinglyParameterizedRatioDataset.__init__ (called as from_simulator by the
\* learner).  d0 is the number of draws made before the call; N reference
\* draws come first, then n draws per alternate parameter, in iterator order.
SinglyParameterizedRatioDataset(th0, iterator, n, d0, do_shuffle, p) ==
    LET N == n * Len(iterator)
        x0 == ensure_2d([k \in 1..N |-> d0 + k])
        y0 == [k \in 1..N |-> 0]
        block(k) == ((k - 1) \div n) + 1
        x1 == ensure_2d([k \in 1..N |-> d0 + N + k])
        th1 == [k \in 1..N |-> iterator[block(k)]]
        ll0_x0 == [k \in 1..N |-> log_prob(th0, x0[k])]
        ll0_x1 == [k \in 1..N |-> 0]
        ll1_x0 == [k \in 1..N |-> 0]
        ll1_x1 == [k \in 1..N |-> log_prob(th1[k], x1[k])]
        y1 == [k \in 1..N |-> 1]
        x  == x0 \o x1
        y  == y0 \o y1
        theta_0s == stack_repeat(th0, Len(x))
        theta_1s == concat_repeat(th1, 2)
        ll0 == ll0_x0 \o ll0_x1
        ll1 == ll1_x0 \o ll1_x1
        nllr == [k \in 1..(2 * N) |-> 0 - (ll1[k] - ll0[k])]
    IN  RatioDataset_init(x, theta_0s, theta_1s, Some(y), Some(nllr),
                          do_shuffle, p)

\* the number of simulator draws one construction makes
DrawsOf(iterator, n) == 2 * n * Len(iterator)

----------------------------------------------------------------------------
(* A RatioDataset used on its own: construction from caller-supplied arrays, *)
(* construction from the simulator, shuffle(), and growth as step() does it. *)

\* the arrays a caller hands to RatioDataset(...): entry i of each array is
\* recognisable, so a shuffle that separates them is visible
ArgX(n) == [i \in 1..n |-> 10 * i]
ArgTheta0s(n) == [i \in 1..n |-> <<0>>]
ArgTheta1s(n) == [i \in 1..n |-> <<i>>]
ArgY(n) == [i \in 1..n |-> i % 2]
ArgNllr(n) == [i \in 1..n |-> 0 - i]
OptArrays(F(_)) == {NoneArr} \cup {Some(F(n)) : n \in 0..MaxLen}

NoArgs == [x |-> <<>>, theta_0s |-> <<>>, theta_1s |-> <<>>,
           y |-> NoneArr, nllr |-> NoneArr]

DsIdle ==
    /\ ds = EmptyDataset
    /\ ds_result = "none"
    /\ ctor_args = NoArgs
    /\ last_op = "none"
    /\ last_perm = <<>>
    /\ ds_before = EmptyDataset

\* ds = RatioDataset(x, theta_0s, theta_1s, y, nllr, shuffle)
DsConstruct ==
    /\ ds_result = "none"
    /\ \E lx, l0, l1 \in 0..MaxLen, y \in OptArrays(ArgY), nllr \in OptArrays(ArgNllr),
          do_shuffle \in BOOLEAN :
      \E p \in IF do_shuffle THEN RandomPermutations(lx) ELSE {IdentityPerm(lx)} :
        LET r == RatioDataset_init(ensure_2d(ArgX(lx)), ArgTheta0s(l0), ArgTheta1s(l1),
                                   y, nllr, do_shuffle, p)
        IN  /\ ctor_args' = [x |-> ensure_2d(ArgX(lx)), theta_0s |-> ArgTheta0s(l0),
                             theta_1s |-> ArgTheta1s(l1), y |-> y, nllr |-> nllr]
            /\ ds' = r.ds
            /\ ds_result' = IF r.ok THEN "ok" ELSE "ValueError"
            /\ last_op' = "construct"
            /\ last_perm' = IF r.ok /\ do_shuffle THEN p ELSE <<>>
            /\ ds_before' = EmptyDataset
            /\ UNCHANGED <<learnerVars, scanVars>>

\* ds = SinglyParameterizedRatioDataset(simulator_func, theta_0, iterator, n)
DsFromSimulator ==
    /\ ds_result = "none"
    /\ \E th1 \in {<<1>>, <<2>>}, n \in 1..MaxLen :
      \E p \in RandomPermutations(2 * n) :
        LET r == SinglyParameterizedRatioDataset(<<0>>, SingleParamIterator(th1),
                                                 n, 100, TRUE, p)
        IN  /\ 2 * n <= MaxDsLen
            /\ ds' = r.ds
            /\ ds_result' = IF r.ok THEN "ok" ELSE "ValueError"
            /\ ctor_args' = NoArgs
            /\ last_op' = "from_simulator"
            /\ last_perm' = p
            /\ ds_before' = EmptyDataset
            /\ UNCHANGED <<learnerVars, scanVars>>

\* ds.shuffle()
DsShuffle ==
    /\ ds_result = "ok"
    /\ \E p \in RandomPermutations(DatasetLen(ds)) :
        /\ ds' = shuffle(ds, p)
        /\ last_perm' = p
    /\ last_op' = "shuffle"
    /\ ds_before' = ds
    /\ UNCHANGED <<ds_result, ctor_args, learnerVars, scanVars>>

\* ds += new_ds: the operands' arrays are concatenated (growth, step() 146)
DsAdd ==
    /\ ds_result = "ok"
    /\ ds.y.given /\ ds.nllr.given
    /\ \E th1 \in {<<1>>, <<2>>} :
        LET new == SinglyParameterizedRatioDataset(
                       <<0>>, SingleParamIterator(th1), 1,
                       100 + DatasetLen(ds), FALSE, IdentityPerm(2))
        IN  /\ DatasetLen(ds) + 2 <= MaxDsLen
            /\ new.ok
            /\ ds' = RatioDataset_add(ds, new.ds)
    /\ last_op' = "add"
    /\ last_perm' = <<>>
    /\ ds_before' = ds
    /\ UNCHANGED <<ds_result, ctor_args, learnerVars, scanVars>>

----------------------------------------------------------------------------
(* ParamIterator / ParamGrid (dataset.py 21-60) *)

\* np.linspace(lo, hi, num): num evenly spaced values from lo to hi
linspace(lo, hi, num) ==
    [i \in 1..num |-> IF num = 1 THEN lo ELSE lo + ((i - 1) * (hi - lo)) \div (num - 1)]

\* ParamGrid.linspaces: one linear space per dimension
linspaces(g) ==
    [d \in 1..Len(g.bounds) |-> linspace(g.bounds[d][1], g.bounds[d][2], g.num[d])]

RECURSIVE product(_)
\* itertools.product(*lists): the first list varies slowest
product(lists) ==
    IF lists = <<>> THEN << <<>> >>
    ELSE LET rest == product(Tail(lists))
         IN  Flatten([i \in 1..Len(Head(lists)) |->
                        [j \in 1..Len(rest) |-> <<Head(lists)[i]>> \o rest[j]]])

\* ParamGrid.values (also read as param_grid.array and param_grid[i])
values(g) == product(linspaces(g))

\* len(param_grid)
GridLen(g) == Len(values(g))

\* the grids a learner is built on: the 3-point grid over [0, 1] in units of
\* 1/4 (0, 0.5, 1), and a 2 x 2 grid
LearnerGrids ==
    { [bounds |-> << <<0, 4>> >>, num |-> <<3>>],
      [bounds |-> << <<0, 2>>, <<0, 4>> >>, num |-> <<2, 2>>] }

\* a vector that is no grid point: the first grid point moved by one unit along
\* the last dimension (it still agrees with grid points on the other ones)
OffGrid(g) ==
    LET v == values(g)[1]
    IN  [d \in 1..Len(v) |-> IF d = Len(v) THEN v[d] + 1 ELSE v[d]]

\* the initial iterators: one grid point, the same grid point twice, a vector
\* off the grid, two grid points, and a grid point with a vector off the grid
InitialIterators(g) ==
    LET first == values(g)[1]
        mid == values(g)[(GridLen(g) + 1) \div 2]
        off == OffGrid(g)
    IN  { <<mid>>, <<mid, mid>>, <<off>>, <<first, mid>>, <<mid, off>> }

----------------------------------------------------------------------------
(* ActiveLearner (active_learner.py) *)

\* a mask that marks a grid point as soon as one coordinate matches
TrialedMask_AnyDimension(grid_values, iterator) ==
    [g \in 1..Len(grid_values) |->
        Cardinality({t \in 1..Len(iterator) :
            \E d \in 1..Len(grid_values[g]) :
                grid_values[g][d] = iterator[t][d]}) # 0]

\* active_learner.py 53-54:
\*   np.array([values == theta for theta in theta_1_iterator])
\*     .all(axis=2).sum(axis=0).astype(bool)
TrialedMask(grid_values, iterator) ==
    [g \in 1..Len(grid_values) |->
        Cardinality({t \in 1..Len(iterator) :
            \A d \in 1..Len(grid_values[g]) :
                grid_values[g][d] = iterator[t][d]}) # 0]

\* arr[mask] for a boolean mask
MaskSelect(arr, mask) ==
    LET idx == SelectSeq([i \in 1..Len(arr) |-> i], LAMBDA i : mask[i])
    IN  [k \in 1..Len(idx) |-> arr[idx[k]]]

\* ActiveLearner.all_thetas / trialed_thetas
all_thetas == values(param_grid)
trialed_thetas == MaskSelect(all_thetas, trialed_mask)
Untrialed(mask) == {i \in 1..Len(mask) : ~mask[i]}

\* ucb_kappa (default of __init__)
ucb_kappa == 1

\* what gp.predict(all_thetas, return_std=True) may return per grid point
MeanValues == {0, 1}
StdValues == {0, 1}
GpPredictions(G) == [mean : [1..G -> MeanValues], std : [1..G -> StdValues]]

\* extended reals for the UCB array: a finite value or -inf
Finite(v) == [neg_inf |-> FALSE, v |-> v]
NegInf == [neg_inf |-> TRUE, v |-> 0]
Greater(a, b) == ~a.neg_inf /\ (b.neg_inf \/ a.v > b.v)

\* np.argmax: the first index holding a maximum
argmax(a) ==
    CHOOSE i \in 1..Len(a) :
        /\ \A j \in 1..Len(a) : ~Greater(a[j], a[i])
        /\ \A j \in 1..(i - 1) : Greater(a[i], a[j])

\* a UCB array whose trialed entries are not forced to -inf
MaskedUcb_NoMask(pred, mask) ==
    [i \in 1..Len(mask) |-> Finite(pred.mean[i] + ucb_kappa * pred.std[i])]

\* active_learner.py 208-209: ucb = U_theta_pred + kappa * std;
\* ucb[trialed_mask] = -inf
MaskedUcb(pred, mask) ==
    [i \in 1..Len(mask) |->
        IF mask[i] THEN NegInf
        ELSE Finite(pred.mean[i] + ucb_kappa * pred.std[i])]

\* active_learner.py 210: the indices np.argmax(ucb) can return, over the
\* predictions the GP may make
UcbChoices(mask) ==
    {argmax(MaskedUcb(pred, mask)) : pred \in GpPredictions(Len(mask))}

\* choice weights that favour the trialed points
choice_weights_Inverted(mask) == [i \in 1..Len(mask) |-> IF mask[i] THEN 1 ELSE 0]

\* active_learner.py 200: choice_weights = 1 - self._trialed_mask
choice_weights(mask) == [i \in 1..Len(mask) |-> 1 - (IF mask[i] THEN 1 ELSE 0)]

\* active_learner.py 201: choice_probs = choice_weights / choice_weights.sum(),
\* kept as the numerators with their common denominator; a zero denominator
\* makes every entry NaN
ChoiceProbs(mask) ==
    [num |-> choice_weights(mask), den |-> SumSeq(choice_weights(mask))]

\* active_learner.py 202: np.random.choice(indices, p=choice_probs) returns an
\* index of positive probability, and raises ValueError on NaN probabilities
RandomChoices(probs) ==
    IF probs.den = 0 THEN {}
    ELSE {i \in 1..Len(probs.num) : probs.num[i] > 0}

NoProbs == [num |-> <<>>, den |-> 0]
NoGp == [id |-> 0, fits |-> 0, fitted_on |-> <<>>, targets |-> <<>>]

\* a factory that hands back the regressor the learner already holds
_gp_Reuse(old) ==
    IF old.id = 0
    THEN [id |-> 1, fits |-> 0, fitted_on |-> <<>>, targets |-> <<>>]
    ELSE old

\* active_learner.py 185-196: _gp() returns a new GaussianProcessRegressor,
\* not fitted; old is the regressor held before, the new one is numbered after it
_gp(old) == [id |-> old.id + 1, fits |-> 0, fitted_on |-> <<>>, targets |-> <<>>]

\* GaussianProcessRegressor.fit(X, y) as called at active_learner.py 206
gp_fit(g, X, y) ==
    [g EXCEPT !.fits = @ + 1, !.fitted_on = X, !.targets = y]

\* lexicographic order of parameter vectors of equal length
RECURSIVE LexLess(_, _)
LexLess(a, b) ==
    IF a = <<>> \/ b = <<>> THEN FALSE
    ELSE \/ Head(a) < Head(b)
         \/ Head(a) = Head(b) /\ LexLess(Tail(a), Tail(b))

RECURSIVE SortRows(_)
SortRows(S) ==
    IF S = {} THEN <<>>
    ELSE LET least == CHOOSE r \in S : \A q \in S : ~LexLess(q, r)
         IN  <<least>> \o SortRows(S \ {least})

\* a unique that keeps every row, repeated ones too
unique_KeepsRepeats(rows) == rows

\* np.unique(rows, axis=0): the distinct rows in ascending order
unique(rows) == SortRows(Range(rows))

\* active_learner.py 165-183: one acquisition value per distinct theta_1 of
\* the dataset, in np.unique order.  A value is named by the theta it is the
\* mean for and by the refit of the ratio model that produced it (n_fits).
calculate_marginalised_acquisition(d, n_fits) ==
    LET u == unique(d.theta_1s)
    IN  [i \in 1..Len(u) |-> [theta |-> u[i], model |-> n_fits]]

\* a list append that keeps only the new entry
append_Overwrite(history, item) == <<item>>

\* list.append as used on _train_history (152), _test_history (160) and
\* acquisition_history (237)
append(history, item) == Append(history, item)

NoLogs == [train |-> <<>>, test |-> <<>>, acq |-> <<>>, gp |-> NoGp]

\* growth that replaces the dataset by the new fragment
GrowDataset_Replace(old, new_ds, p) ==
    shuffle(new_ds, IdentityPerm(DatasetLen(new_ds)))

\* growth that drops the new fragment and keeps the dataset as it was
GrowDataset_NoGrowth(old, new_ds, p) ==
    shuffle(old, IdentityPerm(DatasetLen(old)))

\* active_learner.py 146-147: self.dataset += new_ds; self.dataset.shuffle()
GrowDataset(old, new_ds, p) == shuffle(RatioDataset_add(old, new_ds), p)

\* test_dataset=None
NoTest == [given |-> FALSE, log_prob_0 |-> FALSE, log_prob_1 |-> FALSE]

\* the test datasets a caller passes: none, or a dataset whose log_prob_0 and
\* log_prob_1 are each an array (TRUE) or None (FALSE)
TestDatasets ==
    {NoTest} \cup {[given |-> TRUE, log_prob_0 |-> a, log_prob_1 |-> b] :
                      a, b \in BOOLEAN}

\* a check that lets a test dataset through when one of the two is there
MissingLogProbs_OnlyBoth(td) == ~td.log_prob_0 /\ ~td.log_prob_1

\* active_learner.py 58: test_dataset.log_prob_0 is None or
\* test_dataset.log_prob_1 is None
MissingLogProbs(td) == ~td.log_prob_0 \/ ~td.log_prob_1

\* no fit() call has been made
NoFit == [status |-> "idle", n_iter |-> 0, i |-> 0, untrialed |-> 0, ok_before |-> 0]

\* fit(n_iter) has been called and is about to start its loop; untrialed and
\* ok_before record the number of untrialed grid points and of successful
\* steps at the time of the call
FitCalled(n_iter, mask, ok) ==
    [status |-> "running", n_iter |-> n_iter, i |-> 0,
     untrialed |-> Cardinality({k \in 1..Len(mask) : ~mask[k]}), ok_before |-> ok]

\* a loop that runs its body once more than asked
range_exhausted_OneMore(i, n_iter) == i > n_iter

\* active_learner.py 86: for i in range(n_iter) has no iteration left
range_exhausted(i, n_iter) == i >= n_iter

NoLearner ==
    /\ fit = NoFit
    /\ test_dataset = NoTest
    /\ init_result = "none"
    /\ param_grid = [bounds |-> <<>>, num |-> <<>>]
    /\ theta_0 = <<>>
    /\ theta_1_iterator = <<>>
    /\ n_samples_per_theta = 0
    /\ acquisition_function = "none"
    /\ has_test_dataset = FALSE
    /\ dataset = EmptyDataset
    /\ trialed_mask = <<>>
    /\ train_history = <<>>
    /\ test_history = <<>>
    /\ acquisition_history = <<>>
    /\ gp = NoGp
    /\ draws = 0
    /\ n_steps = 0
    /\ n_ok = 0
    /\ step_result = "none"
    /\ next_theta_index = 0
    /\ choice_probs = NoProbs
    /\ prev_mask = <<>>
    /\ prev_len = 0
    /\ prev_logs = NoLogs

\* The epoch table of the last refit is followed only where the best epoch
\* is read from it (record_best_epoch below); elsewhere it is left empty and a
\* training-history row is named by the size of the dataset that was fitted.
LearnerIdle ==
    /\ NoLearner
    /\ keras_history = <<>>

\* ActiveLearner.__init__ (active_learner.py 42-83), validation_mode = False.
\* The RuntimeError of line 59 leaves the constructor after lines 42-56 have
\* run: the caller gets no learner, and the attributes of lines 61-83 are
\* never assigned.
LearnerInit ==
    \E g \in LearnerGrids, acq \in {"random", "entropy"}, td \in TestDatasets :
      \E it \in InitialIterators(g) :
        \E p \in RandomPermutations(DrawsOf(it, 1)) :
          LET th0 == [d \in 1..Len(g.num) |-> 1]
              r == SinglyParameterizedRatioDataset(th0, it, 1, 0, TRUE, p)
              raised == td.given /\ MissingLogProbs(td)
          IN  /\ r.ok
              /\ test_dataset = td
              /\ init_result = IF raised THEN "RuntimeError" ELSE "ok"
              /\ param_grid = g
              /\ theta_0 = th0
              /\ theta_1_iterator = it
              /\ n_samples_per_theta = 1
              /\ acquisition_function = IF raised THEN "none" ELSE acq
              /\ has_test_dataset = td.given
              /\ dataset = r.ds
              /\ draws = DrawsOf(it, 1)
              /\ trialed_mask = TrialedMask(values(g), it)
              /\ train_history = <<>>
              /\ test_history = <<>>
              /\ acquisition_history = <<>>
              /\ gp = NoGp
              /\ n_steps = 0
              /\ n_ok = 0
              /\ step_result = "none"
              /\ next_theta_index = 0
              /\ choice_probs = NoProbs
              /\ prev_mask = TrialedMask(values(g), it)
              /\ prev_len = DatasetLen(r.ds)
              /\ prev_logs = NoLogs
              /\ keras_history = <<>>

\* an assertion that never fires
AlreadyTrialed_Never(mask, idx) == FALSE

\* active_learner.py 162: assert self._trialed_mask[next_theta_index] == 0
\* fails exactly when the entry is already set
AlreadyTrialed(mask, idx) == mask[idx]

\* a mask update that forgets the points trialed before
MarkTrialed_OnlyLast(mask, idx) == [i \in 1..Len(mask) |-> i = idx]

\* active_learner.py 163: self._trialed_mask[next_theta_index] = 1
MarkTrialed(mask, idx) == [mask EXCEPT ![idx] = TRUE]

\* The part of step() after the choice (active_learner.py 137-163) for the
\* chosen index idx: simulate at all_thetas[idx], grow and reshuffle the
\* dataset, refit, append to the histories, then check and set the mask.
StepFrom(idx) ==
    \E p1 \in RandomPermutations(2 * n_samples_per_theta) :
      \E p2 \in RandomPermutations(DatasetLen(dataset) + 2 * n_samples_per_theta) :
        LET next_theta == all_thetas[idx]
            new_ds == SinglyParameterizedRatioDataset(
                          theta_0, SingleParamIterator(next_theta),
                          n_samples_per_theta, draws, TRUE, p1)
            grown == GrowDataset(dataset, new_ds.ds, p2)
        IN  /\ new_ds.ok
            /\ next_theta_index' = idx
            /\ draws' = draws + DrawsOf(SingleParamIterator(next_theta),
                                        n_samples_per_theta)
            /\ dataset' = grown
            /\ train_history' = append(train_history, [fit_len |-> DatasetLen(grown)])
            /\ test_history' = IF has_test_dataset
                               THEN append(test_history, [fit_len |-> DatasetLen(grown)])
                               ELSE test_history
            /\ IF AlreadyTrialed(trialed_mask, idx)
               THEN /\ step_result' = "AssertionError"
                    /\ trialed_mask' = trialed_mask
                    /\ n_ok' = n_ok
               ELSE /\ step_result' = "ok"
                    /\ trialed_mask' = MarkTrialed(trialed_mask, idx)
                    /\ n_ok' = n_ok + 1

\* step() entered: what every call does before anything else
StepEntered ==
    /\ init_result = "ok"
    /\ acquisition_function # "none"
    /\ fit.status \in {"idle", "running"}
    /\ fit.status = "running" => ~range_exhausted(fit.i, fit.n_iter)
    /\ n_steps < MaxSteps
    /\ n_steps' = n_steps + 1
    /\ prev_mask' = trialed_mask
    /\ prev_len' = DatasetLen(dataset)
    /\ prev_logs' = [train |-> train_history, test |-> test_history,
                     acq |-> acquisition_history, gp |-> gp]
    /\ UNCHANGED <<param_grid, theta_0, theta_1_iterator, n_samples_per_theta,
                   acquisition_function, has_test_dataset, test_dataset,
                   init_result, keras_history, dsVars, scanVars>>

\* What a step() does to the fit() call that made it (active_learner.py
\* 86-88): a step that returns lets the loop go on, an exception raised by
\* step() leaves fit(); a step() called directly leaves fit as it is.
FitAdvance ==
    fit' = IF fit.status = "running"
           THEN [fit EXCEPT !.i = @ + 1,
                            !.status = IF step_result' = "ok"
                                       THEN "running" ELSE "raised"]
           ELSE fit

\* step() in 'random' mode whose np.random.choice raises: the probabilities
\* are NaN because no weight is left (active_learner.py 200-202)
step_random_fails ==
    /\ StepEntered
    /\ acquisition_function = "random"
    /\ RandomChoices(ChoiceProbs(trialed_mask)) = {}
    /\ choice_probs' = ChoiceProbs(trialed_mask)
    /\ step_result' = "ValueError"
    /\ next_theta_index' = 0
    /\ UNCHANGED <<dataset, trialed_mask, train_history, test_history,
                   acquisition_history, gp, draws, n_ok>>
    /\ FitAdvance

\* step() in 'random' mode (active_learner.py 135-163, 199-202)
step_random ==
    /\ StepEntered
    /\ acquisition_function = "random"
    /\ choice_probs' = ChoiceProbs(trialed_mask)
    /\ \E idx \in RandomChoices(ChoiceProbs(trialed_mask)) : StepFrom(idx)
    /\ UNCHANGED <<acquisition_history, gp>>
    /\ FitAdvance

\* step() in acquisition-guided mode (active_learner.py 135-163, 203-211):
\* a fresh GP is fit on the trialed thetas, the arg-max of the masked UCB is
\* chosen and the acquisition history item is recorded
step_ucb ==
    /\ StepEntered
    /\ acquisition_function \notin {"random", "none"}
    /\ gp' = gp_fit(_gp(gp), trialed_thetas,
                     calculate_marginalised_acquisition(
                         dataset, 1 + Len(train_history)))
    /\ acquisition_history' =
          append(acquisition_history,
                 [Training |-> trialed_thetas, Prediction |-> all_thetas])
    /\ \E idx \in UcbChoices(trialed_mask) : StepFrom(idx)
    /\ UNCHANGED choice_probs
    /\ FitAdvance

\* the learner's attributes and the step bookkeeping, which fit() itself
\* does not touch
stepVars == <<param_grid, theta_0, theta_1_iterator, n_samples_per_theta,
              acquisition_function, has_test_dataset, dataset, trialed_mask,
              train_history, test_history, acquisition_history, gp, draws,
              n_steps, n_ok, step_result, next_theta_index, choice_probs,
              prev_mask, prev_len, prev_logs, test_dataset, init_result,
              keras_history>>

\* fit() leaves its loop and returns self (active_learner.py 86, 89)
fit_return ==
    /\ fit.status = "running"
    /\ range_exhausted(fit.i, fit.n_iter)
    /\ fit' = [fit EXCEPT !.status = "returned"]
    /\ UNCHANGED <<stepVars, dsVars, scanVars>>

----------------------------------------------------------------------------
(* The best epoch of a refit (active_learner.py 21-24, 150-152) *)

\* the epoch tables a refit can leave: one row per epoch, 1 to MaxEpochs
\* epochs, with the epoch's validation loss
Histories ==
    UNION {[1..n -> 1..MaxValLoss] : n \in 1..MaxEpochs}

\* pandas Series.max()
SeriesMax(col) == CHOOSE v \in Range(col) : \A w \in Range(col) : w <= v

\* active_learner.py 21-24: the rows of the epoch table whose val_loss equals
\* history['val_loss'].max(), in epoch order; squeeze() turns a selection of
\* one row into that row, and leaves a selection of several rows a table
_get_best_epoch_information(val_loss) ==
    LET best == SeriesMax(val_loss)
        rows == [e \in 1..Len(val_loss) |-> [epoch |-> e, val_loss |-> val_loss[e]]]
    IN  SelectSeq(rows, LAMBDA r : r.val_loss = best)

\* active_learner.py 150-152 of step(): the refit has left its epoch table;
\* the best-epoch information is read from it and appended to _train_history
record_best_epoch ==
    /\ keras_history # <<>>
    /\ train_history = <<>>
    /\ train_history' =
          append(train_history, _get_best_epoch_information(keras_history))
    /\ UNCHANGED <<param_grid, theta_0, theta_1_iterator, n_samples_per_theta,
                   acquisition_function, has_test_dataset, dataset, trialed_mask,
                   test_history, acquisition_history, gp, draws, n_steps, n_ok,
                   step_result, next_theta_index, choice_probs, prev_mask,
                   prev_len, prev_logs, test_dataset, init_result, keras_history,
                   fit, dsVars, scanVars>>

----------------------------------------------------------------------------
(* param_scan (ratio_model.py 96-119, 172-174) *)

\* the grids param_scan is run on: 1-D with 3 points, 2-D with 2 x 3 points
ScanGrids ==
    { [bounds |-> << <<0, 4>> >>, num |-> <<3>>],
      [bounds |-> << <<0, 2>>, <<0, 4>> >>, num |-> <<2, 3>>] }

\* the log-ratio level the fitted model assigns to a grid point
LogRValues == {0 - 1, 0, 1}

NoScan == [done |-> FALSE, profile |-> <<>>, mle |-> <<>>]

ScanIdle ==
    /\ scan_in = [grid |-> [bounds |-> <<>>, num |-> <<>>], X_true |-> <<>>,
                  logr |-> <<>>, theta_batch_size |-> 0]
    /\ scan_out = NoScan

\* np.array_split(arr, k, axis=0): k groups in order, the first Len(arr) % k
\* of them one entry longer
array_split(arr, k) ==
    LET n == Len(arr)
        size(i) == n \div k + (IF i <= n % k THEN 1 ELSE 0)
        start(i) == (i - 1) * (n \div k) + (IF i - 1 <= n % k THEN i - 1 ELSE n % k)
    IN  [i \in 1..k |-> SubSeq(arr, start(i) + 1, start(i) + size(i))]

\* tile_reshape(theta, reps): reps rows, each equal to theta
tile_reshape(theta, reps) == [j \in 1..reps |-> theta]

\* np.split(arr, n): n chunks of equal length, in order
split(arr, n) ==
    LET m == Len(arr) \div n
    IN  [i \in 1..n |-> SubSeq(arr, (i - 1) * m + 1, i * m)]

\* model.predict(X, theta_1s=..., log=True): one log-ratio per row; the fitted
\* model is a function of the row's example and parameter (logr gives its
\* level at each of the grid points theta_values)
predict(X, theta_1s, theta_values, logr) ==
    [r \in 1..Len(X) |->
        logr[CHOOSE i \in 1..Len(theta_values) : theta_values[i] = theta_1s[r]]
          + X[r]]

\* ratio_model.py 107-115: the nllr of one theta_group
GroupNllr(theta_group, X_true, theta_values, logr) ==
    LET theta_1s == Flatten([t \in 1..Len(theta_group) |->
                                tile_reshape(theta_group[t], Len(X_true))])
        X == concat_repeat(X_true, Len(theta_group))
        lr == predict(X, theta_1s, theta_values, logr)
        neg == [r \in 1..Len(lr) |-> 0 - lr[r]]
        chunks == split(neg, Len(theta_group))
    IN  [t \in 1..Len(theta_group) |-> SumSeq(chunks[t])]

\* ratio_model.py 104-117: nllr over the whole grid, batch after batch
ScanNllr(grid, X_true, logr, theta_batch_size) ==
    LET theta_values == values(grid)
        theta_groups == array_split(theta_values, theta_batch_size)
    IN  Flatten([b \in 1..theta_batch_size |->
                    GroupNllr(theta_groups[b], X_true, theta_values, logr)])

\* np.argmin: the first index holding a minimum
argmin(a) ==
    CHOOSE i \in 1..Len(a) :
        /\ \A j \in 1..Len(a) : a[j] >= a[i]
        /\ \A j \in 1..(i - 1) : a[j] > a[i]

\* the first index holding a maximum of an integer array
argmax_int(a) ==
    CHOOSE i \in 1..Len(a) :
        /\ \A j \in 1..Len(a) : a[j] <= a[i]
        /\ \A j \in 1..(i - 1) : a[j] < a[i]

\* an MLE taken at the maximum of the profile
ScanMle_Argmax(nllr, grid) == values(grid)[argmax_int(nllr)]

\* ratio_model.py 118: mle = param_grid[np.argmin(nllr)]
ScanMle(nllr, grid) == values(grid)[argmin(nllr)]

\* ParamGrid.meshgrid()[0].shape: np.meshgrid(*linspaces) with its default
\* indexing 'xy' exchanges the first two axes
MeshgridShape(g) ==
    IF Len(g.num) < 2 THEN g.num
    ELSE <<g.num[2], g.num[1]>> \o SubSeq(g.num, 3, Len(g.num))

RECURSIVE reshape(_, _)
\* arr.reshape(shape): a nested array filled in row-major order
reshape(arr, shape) ==
    IF Len(shape) <= 1 THEN arr
    ELSE LET chunks == split(arr, shape[1])
         IN  [i \in 1..shape[1] |-> reshape(chunks[i], Tail(shape))]

RECURSIVE flatten(_, _)
\* arr.flatten() of a nested array of ndim dimensions (row-major order)
flatten(arr, ndim) ==
    IF ndim <= 1 THEN arr
    ELSE Flatten([i \in 1..Len(arr) |-> flatten(arr[i], ndim - 1)])

\* _to_meshgrid_shape / outer_prod_shape_to_meshgrid_shape: the flat profile
\* takes the shape of the grid's mesh-grid, its entries kept in grid order
to_meshgrid_shape(arr, g) == reshape(arr, MeshgridShape(g))

\* param_scan(model, X_true, param_grid, theta_batch_size)
param_scan ==
    /\ ~scan_out.done
    /\ LET nllr == ScanNllr(scan_in.grid, scan_in.X_true, scan_in.logr,
                            scan_in.theta_batch_size)
       IN  scan_out' = [done |-> TRUE,
                        profile |-> to_meshgrid_shape(nllr, scan_in.grid),
                        mle |-> ScanMle(nllr, scan_in.grid)]
    /\ UNCHANGED <<scan_in, learnerVars, dsVars>>

InitScan ==
    /\ LearnerIdle
    /\ DsIdle
    /\ \E g \in ScanGrids, n \in 1..MaxX, k \in 1..MaxBatches :
         \E lr \in [1..GridLen(g) -> LogRValues] :
            /\ k <= GridLen(g)
            /\ scan_in = [grid |-> g, X_true |-> [j \in 1..n |-> j - 1],
                            logr |-> lr, theta_batch_size |-> k]
    /\ scan_out = NoScan
NextScan == param_scan
SpecScan == InitScan /\ [][NextScan]_vars

Init == LearnerInit /\ fit = NoFit /\ DsIdle /\ ScanIdle
Next == step_random \/ step_random_fails \/ step_ucb
Spec == Init /\ [][Next]_vars

InitDataset == LearnerIdle /\ DsIdle /\ ScanIdle
NextDataset == DsConstruct \/ DsFromSimulator \/ DsShuffle \/ DsAdd
SpecDataset == InitDataset /\ [][NextDataset]_vars

\* a learner has been constructed, without a test dataset (fit() does not
\* read it), and fit(n_iter) is called on it
InitFit ==
    /\ LearnerInit
    /\ init_result = "ok"
    /\ test_dataset = NoTest
    /\ \E n \in 0..MaxSteps : fit = FitCalled(n, trialed_mask, 0)
    /\ DsIdle
    /\ ScanIdle
NextFit == step_random \/ step_random_fails \/ step_ucb \/ fit_return
SpecFit == InitFit /\ [][NextFit]_vars

InitEpoch == NoLearner /\ DsIdle /\ ScanIdle /\ keras_history \in Histories
NextEpoch == record_best_epoch
SpecEpoch == InitEpoch /\ [][NextEpoch]_vars

----------------------------------------------------------------------------
(* Properties *)

LearnerBuilt == acquisition_function # "none"
InitialMask == TrialedMask(values(param_grid), theta_1_iterator)
TrueCount(mask) == Cardinality({i \in 1..Len(mask) : mask[i]})
LastStepChose == n_steps > 0 /\ next_theta_index # 0

\* C1: after n successful step() calls exactly n entries of trialed_mask that
\* were false after construction are true; a successful step flips exactly one
\* entry, from false to true, the one it chose; no entry ever goes back from
\* true to false, neither since construction nor within one step.
C1_MaskGrowsOnePerStep ==
    LearnerBuilt =>
        /\ \A i \in 1..Len(trialed_mask) : InitialMask[i] => trialed_mask[i]
        /\ Cardinality({i \in 1..Len(trialed_mask) :
                            trialed_mask[i] /\ ~InitialMask[i]}) = n_ok
        /\ \A i \in 1..Len(trialed_mask) : prev_mask[i] => trialed_mask[i]
        /\ step_result = "ok" =>
              /\ ~prev_mask[next_theta_index]
              /\ {i \in 1..Len(trialed_mask) : trialed_mask[i] # prev_mask[i]}
                    = {next_theta_index}

\* two steps have succeeded, the second on top of the first
C1_Witness ==
    /\ LearnerBuilt
    /\ n_ok = 2
    /\ step_result = "ok"
    /\ TrueCount(trialed_mask) = TrueCount(InitialMask) + 2

\* C2: in acquisition-guided mode the index chosen by step() is never one
\* whose trialed_mask entry was already true, whenever an untrialed grid point
\* was left, whatever the GP predicted.
C2_UcbNeverReselects ==
    (/\ LearnerBuilt
     /\ acquisition_function # "random"
     /\ LastStepChose
     /\ Untrialed(prev_mask) # {})
        => ~prev_mask[next_theta_index]

\* a sweep in acquisition-guided mode has trialed the whole grid, the last
\* step taking the only point that was left, which was not the first one
C2_Witness ==
    /\ LearnerBuilt
    /\ acquisition_function # "random"
    /\ step_result = "ok"
    /\ n_ok >= 2
    /\ Untrialed(trialed_mask) = {}
    /\ next_theta_index > 1

\* C3: in 'random' mode the indices the choice can return are exactly the
\* untrialed ones, each with the same weight 1 / (number of untrialed points),
\* and the index returned is untrialed.
C3_RandomChoosesAmongUntrialed ==
    (/\ LearnerBuilt
     /\ acquisition_function = "random"
     /\ n_steps > 0
     /\ Untrialed(prev_mask) # {})
        => /\ RandomChoices(choice_probs) = Untrialed(prev_mask)
           /\ choice_probs.den = Cardinality(Untrialed(prev_mask))
           /\ \A i \in 1..Len(prev_mask) :
                 choice_probs.num[i] = IF prev_mask[i] THEN 0 ELSE 1
           /\ next_theta_index \in Untrialed(prev_mask)

\* a random choice among at least two untrialed points took one that is not
\* the first untrialed point
C3_Witness ==
    /\ LearnerBuilt
    /\ acquisition_function = "random"
    /\ step_result = "ok"
    /\ Cardinality(Untrialed(prev_mask)) >= 2
    /\ \E i \in Untrialed(prev_mask) : i < next_theta_index

\* C4: when the index chosen in step() is already marked trialed, the step
\* ends in the assertion failure and leaves trialed_mask as it was.
C4_ReselectionIsFatal ==
    (LearnerBuilt /\ LastStepChose /\ prev_mask[next_theta_index])
        => /\ step_result = "AssertionError"
           /\ trialed_mask = prev_mask

\* a step chose a trialed point (the grid was exhausted) and failed
C4_Witness ==
    /\ LearnerBuilt
    /\ LastStepChose
    /\ prev_mask[next_theta_index]
    /\ step_result = "AssertionError"

\* C5 as stated: whenever a RatioDataset exists (after construction, after
\* shuffle(), after concatenation), x, theta_0s, theta_1s and y all have the
\* same length.
C5_AllFourLengthsEqual ==
    ds_result = "ok" =>
        /\ Len(ds.theta_0s) = Len(ds.x)
        /\ Len(ds.theta_1s) = Len(ds.x)
        /\ ds.y.given
        /\ Len(ds.y.arr) = Len(ds.x)

\* C5 as amended: whenever a RatioDataset exists (after construction, after
\* shuffle(), after concatenation), x, theta_0s and theta_1s have the same
\* length, and so has y whenever labels were given (y is not None).
C5_LengthsEqualWhereGiven ==
    ds_result = "ok" =>
        /\ Len(ds.theta_0s) = Len(ds.x)
        /\ Len(ds.theta_1s) = Len(ds.x)
        /\ ds.y.given => Len(ds.y.arr) = Len(ds.x)

\* a labelled dataset was grown by concatenation and then reshuffled
C5_Witness ==
    /\ ds_result = "ok"
    /\ last_op = "shuffle"
    /\ ds.y.given
    /\ DatasetLen(ds) = 4
    /\ \E i \in 1..DatasetLen(ds) : ds.x[i][1] > 102

\* the examples of a dataset, each with its own label and parameters
Rows(d) ==
    [i \in 1..Len(d.x) |->
        [x |-> d.x[i],
         theta_0 |-> d.theta_0s[i],
         theta_1 |-> d.theta_1s[i],
         y |-> IF d.y.given THEN <<d.y.arr[i]>> ELSE <<>>,
         nllr |-> IF d.nllr.given THEN <<d.nllr.arr[i]>> ELSE <<>>]]

\* C7: shuffle() permutes all per-example arrays alike: the multiset of
\* examples (x_i, y_i, theta_1_i, with theta_0_i and nllr_i when present) is
\* the same before and after the call.
C7_ShuffleKeepsExamples ==
    last_op = "shuffle" =>
        /\ DatasetLen(ds) = DatasetLen(ds_before)
        /\ BagOf(Rows(ds)) = BagOf(Rows(ds_before))

\* a shuffle that moved the examples of a dataset holding both labels
C7_Witness ==
    /\ last_op = "shuffle"
    /\ ds.y.given
    /\ ds.nllr.given
    /\ last_perm # IdentityPerm(Len(last_perm))
    /\ ds.x # ds_before.x
    /\ \E i, j \in 1..DatasetLen(ds) : ds.y.arr[i] # ds.y.arr[j]

\* the lengths of the arrays given to the last RatioDataset(...)
GivenLengths ==
    {Len(ctor_args.x), Len(ctor_args.theta_0s), Len(ctor_args.theta_1s)}
        \cup (IF ctor_args.y.given THEN {Len(ctor_args.y.arr)} ELSE {})
        \cup (IF ctor_args.nllr.given THEN {Len(ctor_args.nllr.arr)} ELSE {})

\* C8: RatioDataset(...) given arrays (x, theta_0s, theta_1s, and y / nllr when
\* given) that do not all have the same length fails with ValueError and
\* yields no dataset.
C8_MismatchedLengthsRejected ==
    (last_op = "construct" /\ \E a, b \in GivenLengths : a # b)
        => /\ ds_result = "ValueError"
           /\ ds = EmptyDataset

\* a construction rejected only because of the length of y
C8_Witness ==
    /\ last_op = "construct"
    /\ ds_result = "ValueError"
    /\ ctor_args.y.given
    /\ Len(ctor_args.x) = 2
    /\ Len(ctor_args.theta_0s) = 2
    /\ Len(ctor_args.theta_1s) = 2
    /\ Len(ctor_args.y.arr) = 1
    /\ ~ctor_args.nllr.given

\* the number of examples of the learner's dataset carrying label v
LabelCount(v) ==
    Cardinality({i \in 1..DatasetLen(dataset) : dataset.y.arr[i] = v})

\* C6: the learner's dataset never shrinks: a successful step() makes it
\* longer by exactly 2 * n_samples_per_theta examples, n_samples_per_theta of
\* them with label 0 and as many with label 1, and no step, successful or
\* not, makes it shorter.
C6_DatasetOnlyGrows ==
    LearnerBuilt =>
        /\ DatasetLen(dataset) >= prev_len
        /\ step_result = "ok" =>
              DatasetLen(dataset) = prev_len + 2 * n_samples_per_theta
        /\ LabelCount(0) = n_samples_per_theta
                             * (Len(theta_1_iterator) + Len(train_history))
        /\ LabelCount(1) = LabelCount(0)
        /\ DatasetLen(dataset) = LabelCount(0) + LabelCount(1)

\* a second successful step has grown a dataset the first one had grown
C6_Witness ==
    /\ LearnerBuilt
    /\ step_result = "ok"
    /\ n_ok = 2
    /\ DatasetLen(dataset) = prev_len + 2 * n_samples_per_theta
    /\ prev_len = 2 * n_samples_per_theta * (Len(theta_1_iterator) + 1)

\* C9: after construction a grid point's trialed_mask entry is true exactly
\* when the grid point equals one of the initial vectors; an initial vector
\* off the grid sets no entry and a repeated one sets its entry once.
C9_MaskMarksExactMatches ==
    (LearnerBuilt /\ n_steps = 0) =>
        /\ Len(trialed_mask) = GridLen(param_grid)
        /\ \A g \in 1..GridLen(param_grid) :
              trialed_mask[g] <=>
                  values(param_grid)[g] \in Range(theta_1_iterator)
        /\ TrueCount(trialed_mask) =
              Cardinality(Range(theta_1_iterator) \cap Range(values(param_grid)))

\* the value 0.5 alone was trialed on the grid 0, 0.5, 1 (2 in units of 1/4)
C9_Witness ==
    /\ LearnerBuilt
    /\ n_steps = 0
    /\ values(param_grid) = << <<0>>, <<2>>, <<4>> >>
    /\ theta_1_iterator = << <<2>> >>
    /\ trialed_mask = <<FALSE, TRUE, FALSE>>

C11_MissingLogProbsFailConstruction ==
    (test_dataset.given /\ ~(test_dataset.log_prob_0 /\ test_dataset.log_prob_1))
        => /\ init_result = "RuntimeError"
           /\ ~LearnerBuilt
           /\ n_steps = 0
           /\ train_history = <<>>
           /\ test_history = <<>>

\* a construction with a test dataset that lacks only log_prob_1 has failed
C11_Witness ==
    /\ init_result = "RuntimeError"
    /\ test_dataset.given
    /\ test_dataset.log_prob_0
    /\ ~test_dataset.log_prob_1

IsPrefix(a, b) == Len(a) <= Len(b) /\ \A i \in 1..Len(a) : a[i] = b[i]
Guided == acquisition_function \notin {"random", "none"}
\* the last step() call got as far as the refit and the history appends
LastStepRefitted == step_result \in {"ok", "AssertionError"}
TestRows(n) == IF has_test_dataset THEN n ELSE 0

\* C12 as stated: the logs have exactly one entry per successful step():
\* after n successful calls train_history has n rows, test_history n rows
\* with a test dataset and none without, acquisition_history n items in
\* acquisition-guided mode, and earlier entries stay as they were.
C12_OneEntryPerSuccessfulStep ==
    LearnerBuilt =>
        /\ Len(train_history) = n_ok
        /\ Len(test_history) = TestRows(n_ok)
        /\ Guided => Len(acquisition_history) = n_ok
        /\ IsPrefix(prev_logs.train, train_history)
        /\ IsPrefix(prev_logs.test, test_history)
        /\ IsPrefix(prev_logs.acq, acquisition_history)

\* C12 (amended): the logs are append-only with one entry per step() call
\* that got as far as the refit.  A successful step() appends exactly one row
\* to train_history, one to test_history when a test dataset was supplied and,
\* in acquisition-guided mode, one item to acquisition_history; a step() that
\* fails the already-trialed assertion has appended the same entries; a
\* step() whose random choice raised appends nothing.  So the logs have
\* exactly n entries after n successful calls as long as an untrialed grid
\* point is left, and never fewer; no earlier entry is removed or changed.
C12_OneEntryPerRefit ==
    LearnerBuilt =>
        /\ IsPrefix(prev_logs.train, train_history)
        /\ IsPrefix(prev_logs.test, test_history)
        /\ IsPrefix(prev_logs.acq, acquisition_history)
        /\ LastStepRefitted =>
              /\ Len(train_history) = Len(prev_logs.train) + 1
              /\ Len(test_history) = Len(prev_logs.test) + TestRows(1)
              /\ Len(acquisition_history) =
                    Len(prev_logs.acq) + (IF Guided THEN 1 ELSE 0)
        /\ step_result = "ValueError" =>
              /\ train_history = prev_logs.train
              /\ test_history = prev_logs.test
              /\ acquisition_history = prev_logs.acq
        /\ Untrialed(trialed_mask) # {} =>
              /\ Len(train_history) = n_ok
              /\ Guided => Len(acquisition_history) = n_ok
        /\ n_ok <= Len(train_history)
        /\ Len(train_history) <= n_steps
        /\ Len(test_history) = TestRows(Len(train_history))
        /\ Len(acquisition_history) = IF Guided THEN Len(train_history) ELSE 0

\* two successful steps in acquisition-guided mode with a test dataset have
\* left two entries in each of the three logs, the first one still in place
C12_Witness ==
    /\ LearnerBuilt
    /\ Guided
    /\ has_test_dataset
    /\ step_result = "ok"
    /\ n_ok = 2
    /\ Len(train_history) = 2
    /\ Len(test_history) = 2
    /\ Len(acquisition_history) = 2
    /\ train_history[1] = prev_logs.train[1]

\* C13 as stated: every step(), whatever the selection mode, leaves the
\* learner with a GP instance created in that step and fitted once, on that
\* step's acquisition values.
C13_GpReplacedEveryStep ==
    (LearnerBuilt /\ n_steps > 0) =>
        /\ gp.id # 0
        /\ gp.id # prev_logs.gp.id
        /\ gp.fits = 1
        /\ \A i \in 1..Len(gp.targets) :
              gp.targets[i].model = 1 + Len(prev_logs.train)

\* C13 (amended): every step() in acquisition-guided mode leaves the learner
\* with a GP instance created in that step (never one held before), fitted
\* exactly once, on the trialed thetas and the acquisition values computed in
\* that step; in 'random' mode step() creates no GP and self.gp stays None.
C13_GpReplacedEveryGuidedStep ==
    /\ (LearnerBuilt /\ Guided /\ n_steps > 0) =>
          /\ gp.id = n_steps
          /\ gp.id > prev_logs.gp.id
          /\ prev_logs.gp.fits <= 1
          /\ gp.fits = 1
          /\ gp.fitted_on = MaskSelect(all_thetas, prev_mask)
          /\ Len(gp.targets) > 0
          /\ \A i \in 1..Len(gp.targets) :
                gp.targets[i].model = 1 + Len(prev_logs.train)
    /\ (LearnerBuilt /\ ~Guided) => gp = NoGp

\* the third step in acquisition-guided mode holds the third GP, fitted once
C13_Witness ==
    /\ LearnerBuilt
    /\ Guided
    /\ n_steps = 3
    /\ gp.id = 3
    /\ gp.fits = 1
    /\ prev_logs.gp.id = 2
    /\ prev_logs.gp.fits = 1

\* C14: every example of a dataset built from the simulator with density
\* labels has nllr = -(log p1(x) - log p0(x)), p0 the reference density and
\* p1 the density at the example's own alternate parameter, for the examples
\* drawn from the reference and for those drawn from the alternate alike.
C14_NllrUsesAllFourLogProbs ==
    (last_op = "from_simulator" /\ ds_result = "ok") =>
        \A i \in 1..DatasetLen(ds) :
            ds.nllr.arr[i] = 0 - (log_prob(ds.theta_1s[i], ds.x[i])
                                    - log_prob(ds.theta_0s[i], ds.x[i]))

\* C15: the training-history entry appended after a refit is the row of the
\* epoch with the lowest validation loss among all epochs of that refit, and
\* it is the row of a single epoch.
C15_BestEpochHasLowestValLoss ==
    (keras_history # <<>> /\ train_history # <<>>) =>
        LET entry == train_history[Len(train_history)]
        IN  /\ Len(entry) = 1
            /\ \A e \in 1..Len(keras_history) :
                  entry[1].val_loss <= keras_history[e]

\* every theta_1 the learner was constructed with is a point of the grid
InitialOnGrid == Range(theta_1_iterator) \subseteq Range(values(param_grid))

\* C16: provided every initial theta_1 is a grid point, whenever
\* choose_next_theta_index() is called in acquisition-guided mode the distinct
\* theta_1 values of the accumulated dataset are exactly the grid points
\* whose trialed_mask entry is true; the acquisition values handed to the GP
\* fit are one per trialed grid point, in the order of trialed_thetas.
C16_DatasetThetasAreTrialedThetas ==
    (LearnerBuilt /\ Guided /\ InitialOnGrid) =>
        /\ Range(dataset.theta_1s) = Range(trialed_thetas)
        /\ n_steps > 0 =>
              /\ gp.fitted_on = MaskSelect(all_thetas, prev_mask)
              /\ Len(gp.targets) = Len(gp.fitted_on)
              /\ \A i \in 1..Len(gp.targets) :
                    gp.targets[i].theta = gp.fitted_on[i]

\* on a two-dimensional grid the GP of the second step was fit on two trialed
\* points and their two acquisition values
C16_Witness ==
    /\ LearnerBuilt
    /\ Guided
    /\ InitialOnGrid
    /\ Len(param_grid.num) = 2
    /\ step_result = "ok"
    /\ n_ok = 2
    /\ Len(gp.targets) = 2
    /\ gp.targets[2].theta = gp.fitted_on[2]

\* C17: the already-trialed check of step() comes after the growth of the
\* dataset, the refit and the history appends: a step() that fails the check
\* leaves trialed_mask as it was, the dataset longer by the new fragment and
\* train_history one entry longer than when the step was entered.
C17_NoRollbackOnFailedCheck ==
    (LearnerBuilt /\ step_result = "AssertionError") =>
        /\ trialed_mask = prev_mask
        /\ DatasetLen(dataset) = prev_len + 2 * n_samples_per_theta
        /\ DatasetLen(dataset) > prev_len
        /\ Len(train_history) = Len(prev_logs.train) + 1
        /\ train_history[Len(train_history)].fit_len = DatasetLen(dataset)
        /\ IsPrefix(prev_logs.train, train_history)

\* a step() on an exhausted grid has failed the check after a successful one
C17_Witness ==
    /\ LearnerBuilt
    /\ step_result = "AssertionError"
    /\ n_ok >= 1
    /\ DatasetLen(dataset) > prev_len
    /\ Len(train_history) = n_ok + 1

\* the successful steps made by the fit() call so far
FitSuccesses == n_ok - fit.ok_before

====
